---------------------------- MODULE Spec2Model ----------------------------
(***************************************************************************)
(* State-machine model of the three forecasting bridges of the repository: *)
(*   - src/ml-models/lstm/forecaster.py          (LSTM bridge, stdin)       *)
(*   - src/simplified_lstm.py                    (simplified LSTM, argv)    *)
(*   - src/ml-models/rcn-price/prophet_forecaster.py (Prophet, argv)        *)
(*                                                                         *)
(* Numbers are fixed point.  A price is an integer number of thousandths   *)
(* (1200 is 1.200); a log-return is an integer number of thousandths       *)
(* (50 is 0.05); a calendar date is a day number, day 0 being 1 January of *)
(* a non-leap year.  The output of a trained network and the noise draws   *)
(* are inputs of the forecast step, drawn from small sets.                 *)
(***************************************************************************)
EXTENDS Integers, Sequences, FiniteSets, TLC

VARIABLES
    variant,        \* which entry point runs: "lstm", "simplified" or "prophet"
    pc,             \* position of the entry point in its script
    input,          \* the JSON payload handed to the process (<<>>: none / malformed)
    stdout,         \* lines written to standard output, in order
    stderr,         \* lines written to standard error, in order
    exit_code,      \* -1 while running, then the exit status of the process
    df,             \* the DataFrame the entry point hands to the forecaster
    forecast_days,  \* self.forecast_days
    data,           \* self.data (cleaned daily series)
    processed_data, \* self.processed_data (cleaned series plus features)
    X_train,        \* training windows, each named by the row index of its target
    X_test,         \* test windows, likewise
    y_prices_test,  \* per test window, the row index of its reference price
    last_sequence,  \* forecast seed: row indices of the last scaled rows
    last_price,     \* self.last_price
    last_date,      \* self.last_date
    return_scaler,  \* self.return_scaler: how often fitted, and on how many rows
    models,         \* number of trained ensemble members in self.models
    all_forecasts,  \* per member, the simulated price path
    all_returns,    \* per member, the return used at every step of the path
    median_forecast,    \* forecast_with_patterns: np.median(all_forecasts, axis=0)
    pattern_adjustment, \* _apply_historical_patterns: cumulated monthly patterns
    forecasts,      \* self.forecasts: the aggregated forecast table
    metrics,        \* validation metrics returned by train_ensemble
    result,         \* the JSON document of a successful run
    model,          \* ProphetForecaster.model: "None", "unfitted" or "fitted"
    trained         \* ProphetForecaster.trained

vars == << variant, pc, input, stdout, stderr, exit_code, df, forecast_days,
           data, processed_data, X_train, X_test, y_prices_test, last_sequence,
           last_price,
           last_date, return_scaler, models, all_forecasts, all_returns,
           median_forecast, pattern_adjustment, forecasts, metrics, result,
           model, trained >>

----------------------------------------------------------------------------
(* Program constants *)

sequence_length == 30
n_models == 3
DefaultForecastDays == 60
MaxForecastDays == 90
ProphetDefaultPeriods == 30
ProphetBacktestPeriods == 30
PatternHorizon == 30
ClipBound == 50
TrendThreshold == 3
PatternDamping == 3
TrainPercent == 80
LowerPermille == 25
UpperPermille == 975
NaN == -2147483647

(* Bounds of the model *)

MaxRows == 2
Dates == {28, 59, 60}
Prices == {1200, 2400}
Horizons == {0, 2, 30, 31, 91}
BacktestPeriods == {1}
Predictions == {-60, 20}
NoiseDraws == {40}

Variants == {"lstm", "simplified", "prophet"}

----------------------------------------------------------------------------
(* Arithmetic helpers *)

Abs(x) == IF x < 0 THEN -x ELSE x

Min(a, b) == IF a <= b THEN a ELSE b

RECURSIVE Sum(_)
Sum(s) == IF s = <<>> THEN 0 ELSE Head(s) + Sum(Tail(s))

\* floor(a * b / c) without forming a * b (0 <= a, 0 < c)
MulDiv(a, b, c) ==
    a * (b \div c) + (a \div c) * (b % c) + ((a % c) * (b % c)) \div c

\* round(a / b) to the nearest integer, ties to even (b > 0, a >= 0)
RoundDiv(a, b) ==
    LET q == a \div b
        r == a % b
    IN  IF 2 * r < b THEN q
        ELSE IF 2 * r > b THEN q + 1
        ELSE IF q % 2 = 0 THEN q ELSE q + 1

\* np.exp(r) - 1 in units of 1e-5, r in thousandths
ExpM1(r) ==
    LET a == Abs(r)
        even == (a * a) \div 20
        odd == 100 * a + (a * a * a) \div 60000
    IN  IF r >= 0 THEN odd + even ELSE even - odd

\* np.log(p / q) in thousandths, p, q > 0: 2 * atanh((p - q) / (p + q))
LogRatio(p, q) ==
    LET hi == IF p >= q THEN p ELSE q
        lo == IF p >= q THEN q ELSE p
        z == ((hi - lo) * 10000) \div (hi + lo)
        zz == (z * z) \div 10000
        z3 == (zz * z) \div 10000
        z5 == (z3 * zz) \div 10000
        z7 == (z5 * zz) \div 10000
        ln == (2 * (z + z3 \div 3 + z5 \div 5 + z7 \div 7) + 5) \div 10
    IN  IF p >= q THEN ln ELSE -ln

\* forecast_date.month / df['Date'].dt.month, 1..12
MonthOf(d) ==
    LET y == d % 365
    IN  IF y < 31 THEN 1 ELSE IF y < 59 THEN 2 ELSE IF y < 90 THEN 3
        ELSE IF y < 120 THEN 4 ELSE IF y < 151 THEN 5 ELSE IF y < 181 THEN 6
        ELSE IF y < 212 THEN 7 ELSE IF y < 243 THEN 8 ELSE IF y < 273 THEN 9
        ELSE IF y < 304 THEN 10 ELSE IF y < 334 THEN 11 ELSE 12

\* dict.get(key, default)
Get(d, key, default) == IF key \in DOMAIN d THEN d[key] ELSE default

Sorted(s) == SortSeq(s, LAMBDA a, b : a < b)

MedianOfSorted(t) ==
    IF Len(t) % 2 = 1 THEN t[(Len(t) + 1) \div 2]
    ELSE (t[Len(t) \div 2] + t[Len(t) \div 2 + 1]) \div 2

\* np.median of a sequence; NaN for an empty one
Median(s) == IF s = <<>> THEN NaN ELSE MedianOfSorted(Sorted(s))

Interpolate(t, lo, frac) ==
    IF frac = 0 THEN t[lo + 1]
    ELSE t[lo + 1] + ((t[lo + 2] - t[lo + 1]) * frac) \div 1000

PercentileOfSorted(t, pos) == Interpolate(t, pos \div 1000, pos % 1000)

\* np.percentile(s, q) with linear interpolation, q in thousandths of 1
Percentile(s, q) == PercentileOfSorted(Sorted(s), q * (Len(s) - 1))

\* np.mean
Mean(s) == Sum(s) \div Len(s)

----------------------------------------------------------------------------
(* pandas operations on a frame: a sequence of rows [Date, Price] *)

IsPermutation(p, n) == \A i \in 1..n : \E j \in 1..n : p[j] = i

\* DataFrame.sort_values('Date'): the default sort kind is not stable, so rows
\* of equal date may come out in any order
sort_values(rows) ==
    LET n == Len(rows)
    IN  { [i \in 1..n |-> rows[p[i]]] :
            p \in { q \in [1..n -> 1..n] :
                      /\ IsPermutation(q, n)
                      /\ \A i \in 1..(n - 1) :
                            rows[q[i]].Date <= rows[q[i + 1]].Date } }

RECURSIVE KeepLast(_, _)
KeepLast(rows, i) ==
    IF i > Len(rows) THEN <<>>
    ELSE IF \E j \in (i + 1)..Len(rows) : rows[j].Date = rows[i].Date
         THEN KeepLast(rows, i + 1)
         ELSE <<rows[i]>> \o KeepLast(rows, i + 1)

\* DataFrame.drop_duplicates(subset=['Date'], keep='last')
drop_duplicates(rows) == KeepLast(rows, 1)

DatesOf(rows) == { rows[i].Date : i \in 1..Len(rows) }

MinDate(rows) == CHOOSE d \in DatesOf(rows) : \A e \in DatesOf(rows) : d <= e

MaxDate(rows) == CHOOSE d \in DatesOf(rows) : \A e \in DatesOf(rows) : d >= e

\* a range that runs one day past its end: the fault LoaderOutputIsDaily detects
date_range_past_end(start, end) == [k \in 1..(end - start + 2) |-> start + k - 1]

\* pd.date_range(start, end, freq='D')
date_range(start, end) == [k \in 1..(end - start + 1) |-> start + k - 1]

\* set_index('Date').reindex(full_date_range).reset_index(): one row per day
\* of the range, the price NaN on a day the frame has no row for
reindex(rows, range) ==
    [k \in 1..Len(range) |->
        [Date |-> range[k],
         Price |-> IF \E i \in 1..Len(rows) : rows[i].Date = range[k]
                   THEN rows[CHOOSE i \in 1..Len(rows) : rows[i].Date = range[k]].Price
                   ELSE NaN]]

\* Series.fillna(method='ffill')
ffill(rows) ==
    [k \in 1..Len(rows) |->
        [Date |-> rows[k].Date,
         Price |-> LET known == { j \in 1..k : rows[j].Price # NaN }
                   IN  IF known = {} THEN NaN
                       ELSE rows[CHOOSE j \in known : \A i \in known : i <= j].Price]]

\* df.groupby('Date')['Price'].mean().reset_index(): one row per distinct
\* date, ascending, holding the mean of the prices of that date
groupby_mean(rows) ==
    LET RECURSIVE G(_)
        G(ds) ==
            IF ds = {} THEN <<>>
            ELSE LET d == CHOOSE x \in ds : \A y \in ds : x <= y
                     ps == SelectSeq(rows, LAMBDA r : r.Date = d)
                 IN  <<[Date |-> d,
                        Price |-> Mean([i \in 1..Len(ps) |-> ps[i].Price])]>>
                     \o G(ds \ {d})
    IN  G(DatesOf(rows))

\* lines 36-48 of load_data / 55-68 of load_and_validate_data, after the sort
clean(sorted) ==
    LET unique == drop_duplicates(sorted)
    IN  ffill(reindex(unique, date_range(MinDate(unique), MaxDate(unique))))

----------------------------------------------------------------------------
(* The forecasting recurrence (forecast / forecast_with_patterns) *)

\* a clip that has lost its upper bound: the fault ClampInvariant detects
ClipReturnLowerOnly(r) == IF r < -ClipBound THEN -ClipBound ELSE r

\* np.clip(next_return, -0.05, 0.05)
ClipReturn(r) ==
    IF r < -ClipBound THEN -ClipBound ELSE IF r > ClipBound THEN ClipBound ELSE r

\* curr_price * np.exp(next_return)
NextPrice(curr_price, next_return) ==
    curr_price + MulDiv(curr_price, ExpM1(next_return), 100000)

\* model.predict(...) + np.random.normal(...) on forecast day `day` (0-based):
\* the member predicts mu and the draw is eps on even days, -eps on odd days
RawReturn(mu, eps, day) == mu + (IF day % 2 = 0 THEN eps ELSE -eps)

\* the clipped return of every step of one member's loop
StepReturns(mu, eps, n) == [t \in 1..n |-> ClipReturn(RawReturn(mu, eps, t - 1))]

RECURSIVE Roll(_, _, _)
Roll(forecast_prices, start_price, rets) ==
    IF Len(forecast_prices) = Len(rets) THEN forecast_prices
    ELSE LET day == Len(forecast_prices)
             curr_price == IF day = 0 THEN start_price ELSE forecast_prices[day]
         IN  Roll(Append(forecast_prices, NextPrice(curr_price, rets[day + 1])),
                  start_price, rets)

\* forecast_prices of one member: the loop over range(self.forecast_days)
ForecastPath(start_price, rets) == Roll(<<>>, start_price, rets)

\* all_forecasts[:, k]
Column(paths, k) == [m \in 1..Len(paths) |-> paths[m][k]]

----------------------------------------------------------------------------
(* The process: standard streams and exit status *)

Running == -1

ErrorJson == [kind |-> "json", error |-> TRUE]
ResultJson == [kind |-> "json", error |-> FALSE]
TextLine == [kind |-> "text", error |-> FALSE]

Rows == [Date : Dates, Price : Prices]

RowSeqs == UNION { [1..n -> Rows] : n \in 0..MaxRows }

\* the key of the historical rows and of the horizon in each variant's payload
RowsKey(v) == IF v = "lstm" THEN "file_path" ELSE "historical_data"

HorizonKey(v) == IF v = "lstm" THEN "forecast_days" ELSE "forecast_periods"

\* the JSON payloads an entry point is started with; the LSTM bridge is given
\* the path of a sheet, modelled by the rows of that sheet
Payloads(v) ==
    LET base == { (RowsKey(v) :> r) : r \in RowSeqs }
        horizon == base \cup { b @@ (HorizonKey(v) :> h) : b \in base, h \in Horizons }
    IN  IF v = "prophet"
        THEN horizon
             \cup { p @@ ("backtest" :> TRUE) : p \in horizon }
             \cup { p @@ ("backtest" :> TRUE) @@ ("backtest_periods" :> n) :
                      p \in horizon, n \in BacktestPeriods }
        ELSE horizon

Init ==
    /\ variant \in Variants
    /\ input \in {<<>>} \cup { <<p>> : p \in Payloads(variant) }
    /\ pc = "start"
    /\ stdout = <<>>
    /\ stderr = <<>>
    /\ exit_code = Running
    /\ df = <<>>
    /\ forecast_days = 0
    /\ data = <<>>
    /\ processed_data = <<>>
    /\ X_train = <<>>
    /\ X_test = <<>>
    /\ y_prices_test = <<>>
    /\ last_sequence = <<>>
    /\ last_price = 0
    /\ last_date = 0
    /\ return_scaler = [fits |-> 0, n_rows |-> 0]
    /\ models = 0
    /\ all_forecasts = <<>>
    /\ all_returns = <<>>
    /\ median_forecast = <<>>
    /\ pattern_adjustment = <<>>
    /\ forecasts = <<>>
    /\ metrics = <<>>
    /\ result = <<>>
    /\ model = "None"
    /\ trained = FALSE

\* groups of variables, for the frame conditions
env == << variant, input >>
io == << stdout, stderr, exit_code >>
loaded == << df, forecast_days >>
series == << data, processed_data >>
prepared == << X_train, X_test, y_prices_test, last_sequence, last_price,
               last_date, return_scaler >>
ensemble == << models, metrics >>
simulated == << all_forecasts, all_returns, median_forecast, pattern_adjustment,
                forecasts >>
prophet == << model, trained >>
object == << loaded, series, prepared, ensemble, simulated, prophet, result >>

----------------------------------------------------------------------------
(* Steps shared by the two LSTM variants *)

\* the feature frame: the cleaned series plus the Returns column
with_returns(rows) ==
    [i \in 1..Len(rows) |->
        [Date |-> rows[i].Date,
         Price |-> rows[i].Price,
         Returns |-> IF i = 1 THEN 0
                     ELSE LogRatio(rows[i].Price, rows[i - 1].Price)]]

\* range(self.sequence_length, len(feature_data_scaled) - 1): the 0-based row
\* index of the target of every window
window_targets(n_rows) ==
    [j \in 1..(IF n_rows - 1 > sequence_length
               THEN n_rows - 1 - sequence_length ELSE 0) |-> sequence_length + j - 1]

\* a split index rounded up instead of down: the fault TemporalSplit detects
split_index_rounded_up(n_windows) == (n_windows * TrainPercent + 99) \div 100

\* int(len(X) * (1 - test_size)), test_size = 0.2
split_index(n_windows) == (n_windows * TrainPercent) \div 100

\* feature_data_scaled[-self.sequence_length:], as 0-based row indices
seed_rows(n_rows) ==
    LET len == Min(n_rows, sequence_length)
    IN  [j \in 1..len |-> n_rows - len + j - 1]

\* the assignments of prepare_data / prepare_training_data
prepare ==
    LET n == Len(processed_data)
        X == window_targets(n)
        split_idx == split_index(Len(X))
    IN  /\ return_scaler' = [fits |-> return_scaler.fits + 1, n_rows |-> n]
        /\ X_train' = SubSeq(X, 1, split_idx)
        /\ X_test' = SubSeq(X, split_idx + 1, Len(X))
        /\ y_prices_test' =
             IF variant = "simplified"
             THEN [j \in 1..(Len(X) - split_idx) |-> X[split_idx + j] + 1]
             ELSE <<>>
        /\ last_sequence' = seed_rows(n)
        /\ last_price' = processed_data[n].Price
        /\ last_date' = processed_data[n].Date

\* the loop over self.models: every member rolls its own path forward
simulate ==
    /\ \E mu \in [1..models -> Predictions], eps \in [1..models -> NoiseDraws] :
          all_returns' =
              [m \in 1..models |-> StepReturns(mu[m], eps[m], forecast_days)]
    /\ all_forecasts' =
          [m \in 1..models |-> ForecastPath(last_price, all_returns'[m])]

----------------------------------------------------------------------------
(* src/ml-models/lstm/forecaster.py *)

\* the except clause of main: print the error document, sys.exit(1)
lstm_except ==
    /\ stdout' = Append(stdout, ErrorJson)
    /\ exit_code' = 1
    /\ pc' = "exited"
    /\ UNCHANGED << env, stderr >>

\* main, lines 229-244: parse stdin, read the sheet, average the prices of
\* each date, construct the forecaster
lstm_main ==
    /\ variant = "lstm" /\ pc = "start"
    /\ IF input = <<>>
       THEN lstm_except /\ UNCHANGED object
       ELSE /\ df' = groupby_mean(input[1].file_path)
            /\ forecast_days' =
                 Min(Get(input[1], "forecast_days", DefaultForecastDays), MaxForecastDays)
            /\ pc' = "load"
            /\ UNCHANGED << env, io, series, prepared, ensemble, simulated,
                            prophet, result >>

load_data ==
    /\ variant = "lstm" /\ pc = "load"
    /\ IF df = <<>>
       THEN lstm_except /\ UNCHANGED object
       ELSE /\ \E sorted \in sort_values(df) : data' = clean(sorted)
            /\ pc' = "features"
            /\ UNCHANGED << env, io, loaded, processed_data, prepared, ensemble,
                            simulated, prophet, result >>

create_features ==
    /\ variant = "lstm" /\ pc = "features"
    /\ processed_data' = with_returns(data)
    /\ pc' = "prepare"
    /\ UNCHANGED << env, io, loaded, data, prepared, ensemble, simulated,
                    prophet, result >>

prepare_data ==
    /\ variant = "lstm" /\ pc = "prepare"
    /\ prepare
    /\ pc' = "train"
    /\ UNCHANGED << env, io, loaded, series, ensemble, simulated, prophet, result >>

\* model.fit raises on an empty training set; otherwise member k + 1 may
\* fail inside the library after k members were trained
train_ensemble ==
    /\ variant = "lstm" /\ pc = "train"
    /\ \E k \in 0..n_models :
          /\ X_train = <<>> => k = 0
          /\ models' = k
          /\ IF k < n_models
             THEN lstm_except
             ELSE pc' = "forecast" /\ UNCHANGED << env, io >>
    /\ UNCHANGED << loaded, series, prepared, metrics, simulated, prophet, result >>

\* one row of the table stored in self.forecasts, for forecast day k
aggregate(paths, k) ==
    [Date |-> last_date + k,
     Price_Median |-> Median(Column(paths, k)),
     Price_Mean |-> Mean(Column(paths, k)),
     Price_Lower |-> Percentile(Column(paths, k), LowerPermille),
     Price_Upper |-> Percentile(Column(paths, k), UpperPermille)]

\* a forecast step that fits the scaler again, on the synthetic rows: the fault
\* ScalerFittedOnce detects
forecast_refitting ==
    /\ variant = "lstm" /\ pc = "forecast"
    /\ simulate
    /\ forecasts' = [k \in 1..forecast_days |-> aggregate(all_forecasts', k)]
    /\ return_scaler' = [fits |-> return_scaler.fits + 1, n_rows |-> forecast_days]
    /\ pc' = "format"
    /\ UNCHANGED << env, io, loaded, series, X_train, X_test, y_prices_test,
                    last_sequence, last_price, last_date, ensemble, median_forecast,
                    pattern_adjustment, prophet, result >>

forecast ==
    /\ variant = "lstm" /\ pc = "forecast"
    /\ simulate
    /\ forecasts' = [k \in 1..forecast_days |-> aggregate(all_forecasts', k)]
    /\ pc' = "format"
    /\ UNCHANGED << env, io, loaded, series, prepared, ensemble, median_forecast,
                    pattern_adjustment, prophet, result >>

\* Series.round(2) / round(x, 2): thousandths to hundredths, ties to even
Round2(price) == RoundDiv(price, 10)

\* thresholds that include their boundary: the fault TrendLabelByThreshold detects
TrendLabelInclusive(last, final) ==
    IF 100 * (final - last) >= TrendThreshold * last THEN "UP"
    ELSE IF 100 * (final - last) <= -TrendThreshold * last THEN "DOWN"
    ELSE "FLAT"

\* 'UP' if trend_pct > 0.03 else ('DOWN' if trend_pct < -0.03 else 'FLAT'),
\* trend_pct = (final_price - last_price) / last_price
TrendLabel(last, final) ==
    IF 100 * (final - last) > TrendThreshold * last THEN "UP"
    ELSE IF 100 * (final - last) < -TrendThreshold * last THEN "DOWN"
    ELSE "FLAT"

\* to_json and the print of main, lines 253-254; .iloc[-1] raises on an
\* empty forecast table
to_json ==
    /\ variant = "lstm" /\ pc = "format"
    /\ IF forecasts = <<>>
       THEN lstm_except /\ UNCHANGED object
       ELSE /\ result' =
                 [horizonDays |-> forecast_days,
                  basePrice |-> Round2(last_price),
                  trendLabel |-> TrendLabel(last_price,
                                            forecasts[Len(forecasts)].Price_Median),
                  forecast_dates |-> [k \in 1..Len(forecasts) |-> forecasts[k].Date],
                  median_prices |->
                      [k \in 1..Len(forecasts) |-> Round2(forecasts[k].Price_Median)],
                  lower_band |->
                      [k \in 1..Len(forecasts) |-> Round2(forecasts[k].Price_Lower)],
                  upper_band |->
                      [k \in 1..Len(forecasts) |-> Round2(forecasts[k].Price_Upper)]]
            /\ stdout' = Append(stdout, ResultJson)
            /\ exit_code' = 0
            /\ pc' = "exited"
            /\ UNCHANGED << env, stderr, loaded, series, prepared, ensemble,
                            simulated, prophet >>

----------------------------------------------------------------------------
(* src/simplified_lstm.py *)

\* print(json.dumps({"error": ...})); sys.exit(1)
simplified_fail ==
    /\ stdout' = Append(stdout, ErrorJson)
    /\ exit_code' = 1
    /\ pc' = "exited"
    /\ UNCHANGED << env, stderr >>

\* __main__, lines 415-437: check argv, parse it, build the frame, construct
\* the forecaster
simplified_main ==
    /\ variant = "simplified" /\ pc = "start"
    /\ IF input = <<>> \/ Get(input[1], "historical_data", <<>>) = <<>>
       THEN simplified_fail /\ UNCHANGED object
       ELSE /\ df' = input[1].historical_data
            /\ forecast_days' =
                 Min(Get(input[1], "forecast_periods", DefaultForecastDays),
                     MaxForecastDays)
            /\ pc' = "load"
            /\ UNCHANGED << env, io, series, prepared, ensemble, simulated,
                            prophet, result >>

load_and_validate_data ==
    /\ variant = "simplified" /\ pc = "load"
    /\ \E sorted \in sort_values(df) : data' = clean(sorted)
    /\ pc' = "features"
    /\ UNCHANGED << env, io, loaded, processed_data, prepared, ensemble,
                    simulated, prophet, result >>

create_simple_features ==
    /\ variant = "simplified" /\ pc = "features"
    /\ processed_data' = with_returns(data)
    /\ pc' = "prepare"
    /\ UNCHANGED << env, io, loaded, data, prepared, ensemble, simulated,
                    prophet, result >>

prepare_training_data ==
    /\ variant = "simplified" /\ pc = "prepare"
    /\ prepare
    /\ pc' = "train"
    /\ UNCHANGED << env, io, loaded, series, ensemble, simulated, prophet, result >>

\* arr[start:stop] of Python for a list of length n, as 0-based positions
PySlice(n, start, stop) ==
    LET norm(i) == IF i < 0 THEN (IF n + i < 0 THEN 0 ELSE n + i)
                   ELSE IF i > n THEN n ELSE i
        lo == norm(start)
        hi == norm(stop)
    IN  [j \in 1..(IF hi > lo THEN hi - lo ELSE 0) |-> lo + j - 1]

\* validate_ensemble: per test window, the row whose price is the base of the
\* reconstruction and the row whose price it is scored against
validate_ensemble ==
    LET n == Len(processed_data)
        first == PySlice(n, sequence_length, -1)
        pick == PySlice(Len(first), -Len(X_test) - 1, -1)
    IN  [base_rows |-> [j \in 1..Len(pick) |-> first[pick[j] + 1]],
         actual_rows |-> y_prices_test]

\* a pipeline that goes on to forecast although the last member failed to
\* train: the fault PipelineStopsAtFailure detects
simplified_train_ensemble_tolerant ==
    /\ variant = "simplified" /\ pc = "train"
    /\ \E k \in 0..n_models :
          /\ X_train = <<>> => k = 0
          /\ models' = k
          /\ IF k < n_models - 1
             THEN simplified_fail /\ UNCHANGED metrics
             ELSE /\ metrics' = validate_ensemble
                  /\ pc' = "forecast"
                  /\ UNCHANGED << env, io >>
    /\ UNCHANGED << loaded, series, prepared, simulated, prophet, result >>

\* train_ensemble: a failure of fit returns None, and run_complete_pipeline
\* then returns (None, None)
simplified_train_ensemble ==
    /\ variant = "simplified" /\ pc = "train"
    /\ \E k \in 0..n_models :
          /\ X_train = <<>> => k = 0
          /\ models' = k
          /\ IF k < n_models
             THEN simplified_fail /\ UNCHANGED metrics
             ELSE /\ metrics' = validate_ensemble
                  /\ pc' = "forecast"
                  /\ UNCHANGED << env, io >>
    /\ UNCHANGED << loaded, series, prepared, simulated, prophet, result >>

AddNaN(a, b) == IF a = NaN \/ b = NaN THEN NaN ELSE a + b

\* the typical return of a calendar month: the median log-return between
\* consecutive historical rows of that month, 0 without rows
typical_return(month) ==
    LET month_prices ==
            SelectSeq([i \in 1..Len(processed_data) |-> processed_data[i]],
                      LAMBDA r : MonthOf(r.Date) = month)
    IN  IF Len(month_prices) > 0
        THEN Median([j \in 1..(Len(month_prices) - 1) |->
                        LogRatio(month_prices[j + 1].Price, month_prices[j].Price)])
        ELSE 0

RECURSIVE CumSum(_, _)
CumSum(sums, xs) ==
    IF Len(sums) = Len(xs) THEN sums
    ELSE LET i == Len(sums)
         IN  CumSum(Append(sums, AddNaN(IF i = 0 THEN 0 ELSE sums[i], xs[i + 1])), xs)

\* the typical return of every calendar month, January first
monthly_returns == [month \in 1..12 |-> typical_return(month)]

\* the entry of a monthly table for every one of n forecast days
RECURSIVE by_forecast_month(_, _, _)
by_forecast_month(patterns, table, n) ==
    IF Len(patterns) = n THEN patterns
    ELSE by_forecast_month(
             Append(patterns, table[MonthOf(last_date + Len(patterns) + 1)]),
             table, n)

\* historical_patterns: the typical return of the month of every forecast day
historical_patterns(n) ==
    by_forecast_month(<<>>, <<monthly_returns[1], monthly_returns[2],
                              monthly_returns[3], monthly_returns[4],
                              monthly_returns[5], monthly_returns[6],
                              monthly_returns[7], monthly_returns[8],
                              monthly_returns[9], monthly_returns[10],
                              monthly_returns[11], monthly_returns[12]>>, n)

\* np.cumsum(historical_patterns), in thousandths
cumulative_patterns(n) == CumSum(<<>>, historical_patterns(n))

\* forecast * (1 + cumsum * 0.3) for one day
blend(price, cumsum) ==
    IF cumsum = NaN THEN NaN
    ELSE price + MulDiv(price, PatternDamping * cumsum, 10000)

\* adjusted_forecast = forecast * pattern_adjustment
_apply_historical_patterns(medians, cumsum) ==
    [i \in 1..Len(medians) |-> blend(medians[i], cumsum[i])]

\* one row of the table stored in self.forecasts, for forecast day k
pattern_row(reported, paths, k) ==
    [Date |-> last_date + k,
     Price_Median |-> reported[k],
     Price_Lower_95 |-> Percentile(Column(paths, k), LowerPermille),
     Price_Upper_95 |-> Percentile(Column(paths, k), UpperPermille)]

\* a forecast that blends from a horizon of 30 days on: the fault
\* BlendingAbove30InSimplified detects
forecast_with_patterns_from_30 ==
    /\ variant = "simplified" /\ pc = "forecast"
    /\ simulate
    /\ median_forecast' =
         [k \in 1..forecast_days |-> Median(Column(all_forecasts', k))]
    /\ pattern_adjustment' =
         IF forecast_days >= PatternHorizon
         THEN cumulative_patterns(forecast_days) ELSE <<>>
    /\ forecasts' =
         [k \in 1..forecast_days |->
            pattern_row(IF forecast_days >= PatternHorizon
                        THEN _apply_historical_patterns(median_forecast',
                                                        pattern_adjustment')
                        ELSE median_forecast',
                        all_forecasts', k)]
    /\ pc' = "output"
    /\ UNCHANGED << env, io, loaded, series, prepared, ensemble, prophet, result >>

forecast_with_patterns ==
    /\ variant = "simplified" /\ pc = "forecast"
    /\ simulate
    /\ median_forecast' =
         [k \in 1..forecast_days |-> Median(Column(all_forecasts', k))]
    /\ pattern_adjustment' =
         IF forecast_days > PatternHorizon
         THEN cumulative_patterns(forecast_days) ELSE <<>>
    /\ forecasts' =
         [k \in 1..forecast_days |->
            pattern_row(IF forecast_days > PatternHorizon
                        THEN _apply_historical_patterns(median_forecast',
                                                        pattern_adjustment')
                        ELSE median_forecast',
                        all_forecasts', k)]
    /\ pc' = "output"
    /\ UNCHANGED << env, io, loaded, series, prepared, ensemble, prophet, result >>

\* __main__, lines 446-463: format the table and print it
simplified_output ==
    /\ variant = "simplified" /\ pc = "output"
    /\ result' =
         [forecast |-> [k \in 1..Len(forecasts) |->
                           [ds |-> forecasts[k].Date,
                            yhat |-> forecasts[k].Price_Median,
                            yhat_lower |-> forecasts[k].Price_Lower_95,
                            yhat_upper |-> forecasts[k].Price_Upper_95]],
          accuracy |-> metrics]
    /\ stdout' = Append(stdout, ResultJson)
    /\ exit_code' = 0
    /\ pc' = "exited"
    /\ UNCHANGED << env, stderr, loaded, series, prepared, ensemble, simulated,
                    prophet >>

----------------------------------------------------------------------------
(* src/ml-models/rcn-price/prophet_forecaster.py *)

\* the except clause of main: the error document goes to standard error
prophet_except ==
    /\ stderr' = Append(stderr, ErrorJson)
    /\ exit_code' = 1
    /\ pc' = "exited"
    /\ UNCHANGED << env, stdout >>

\* main, lines 134-147: without an argument a plain line is printed; an
\* empty historical_data gives a frame without a 'date' column
prophet_main ==
    /\ variant = "prophet" /\ pc = "start"
    /\ IF input = <<>>
       THEN /\ stdout' = Append(stdout, TextLine)
            /\ exit_code' = 1
            /\ pc' = "exited"
            /\ UNCHANGED << env, stderr, object >>
       ELSE IF input[1].historical_data = <<>>
       THEN prophet_except /\ UNCHANGED object
       ELSE /\ df' = input[1].historical_data
            /\ pc' = "train"
            /\ UNCHANGED << env, io, forecast_days, series, prepared, ensemble,
                            simulated, prophet, result >>

\* Prophet.fit raises on a frame of fewer than 2 rows
fit_ok(rows) == Len(rows) >= 2

\* ProphetForecaster.train: a new model replaces self.model before it is
\* fitted; trained is set, and a line printed, only after the fit
train(rows) ==
    IF fit_ok(rows)
    THEN /\ model' = "fitted"
         /\ trained' = TRUE
         /\ last_date' = MaxDate(rows)
         /\ stdout' = Append(stdout, TextLine)
    ELSE /\ model' = "unfitted"
         /\ UNCHANGED << trained, last_date >>
         /\ prophet_except

\* ProphetForecaster.forecast: the rows of the `periods` days after the
\* history of the fitted model
future(periods) == [k \in 1..periods |-> [ds |-> last_date + k]]

prophet_train ==
    /\ variant = "prophet" /\ pc = "train"
    /\ train(df)
    /\ IF fit_ok(df)
       THEN pc' = "forecast" /\ UNCHANGED << env, stderr, exit_code >>
       ELSE TRUE
    /\ UNCHANGED << loaded, series, X_train, X_test, y_prices_test, last_sequence,
                    last_price, return_scaler, ensemble, simulated, result >>

\* main, lines 153-154
prophet_forecast ==
    /\ variant = "prophet" /\ pc = "forecast"
    /\ forecast_days' = Get(input[1], "forecast_periods", ProphetDefaultPeriods)
    /\ IF trained
       THEN /\ forecasts' = future(forecast_days')
            /\ pc' = IF Get(input[1], "backtest", FALSE) THEN "backtest" ELSE "output"
            /\ UNCHANGED << env, io >>
       ELSE prophet_except /\ UNCHANGED forecasts
    /\ UNCHANGED << df, series, prepared, ensemble, all_forecasts, all_returns,
                    median_forecast, pattern_adjustment, prophet, result >>

\* ProphetForecaster.backtest, called from main line 159: train on all but
\* the last test_periods rows, forecast test_periods days, score them
backtest ==
    /\ variant = "prophet" /\ pc = "backtest"
    /\ LET test_periods == Get(input[1], "backtest_periods", ProphetBacktestPeriods)
           keep == PySlice(Len(df), 0, -test_periods)
           train_df == [j \in 1..Len(keep) |-> df[keep[j] + 1]]
       IN  /\ train(train_df)
           /\ IF fit_ok(train_df)
              THEN /\ metrics' = [predictions |-> future(test_periods)]
                   /\ pc' = "output"
                   /\ UNCHANGED << env, stderr, exit_code >>
              ELSE UNCHANGED metrics
    /\ UNCHANGED << loaded, series, X_train, X_test, y_prices_test, last_sequence,
                    last_price, return_scaler, models, simulated, result >>

\* main, lines 162-168: json.dumps raises on the Timestamp of a forecast
\* row, so only an output without rows is printed
prophet_output ==
    /\ variant = "prophet" /\ pc = "output"
    /\ IF forecasts = <<>> /\ metrics = <<>>
       THEN /\ result' = [forecast |-> forecasts, backtest |-> metrics]
            /\ stdout' = Append(stdout, ResultJson)
            /\ exit_code' = 0
            /\ pc' = "exited"
            /\ UNCHANGED << env, stderr >>
       ELSE prophet_except /\ UNCHANGED result
    /\ UNCHANGED << loaded, series, prepared, ensemble, simulated, prophet >>

----------------------------------------------------------------------------

Next ==
    \/ lstm_main
    \/ load_data
    \/ create_features
    \/ prepare_data
    \/ train_ensemble
    \/ forecast
    \/ to_json
    \/ simplified_main
    \/ load_and_validate_data
    \/ create_simple_features
    \/ prepare_training_data
    \/ simplified_train_ensemble
    \/ forecast_with_patterns
    \/ simplified_output
    \/ prophet_main
    \/ prophet_train
    \/ prophet_forecast
    \/ backtest
    \/ prophet_output

Spec == Init /\ [][Next]_vars

----------------------------------------------------------------------------
(* The trend label on its own: to_json applied after a one-day forecast in *)
(* which every member used the same return, for every return the clip      *)
(* admits                                                                  *)

TrendBases == {1000, 1200}

TrendHistory(base) == <<[Date |-> 28, Price |-> base], [Date |-> 60, Price |-> base]>>

TrendInit ==
    \E base \in TrendBases, r \in (-ClipBound)..ClipBound :
        LET rows == TrendHistory(base)
            frame == with_returns(clean(rows))
            n == Len(frame)
            X == window_targets(n)
            split_idx == split_index(Len(X))
            paths == [m \in 1..n_models |-> ForecastPath(base, <<r>>)]
        IN  /\ variant = "lstm"
            /\ input = <<("file_path" :> rows) @@ ("forecast_days" :> 1)>>
            /\ pc = "format"
            /\ stdout = <<>>
            /\ stderr = <<>>
            /\ exit_code = Running
            /\ df = rows
            /\ forecast_days = 1
            /\ data = clean(rows)
            /\ processed_data = frame
            /\ X_train = SubSeq(X, 1, split_idx)
            /\ X_test = SubSeq(X, split_idx + 1, Len(X))
            /\ y_prices_test = <<>>
            /\ last_sequence = seed_rows(n)
            /\ last_price = base
            /\ last_date = frame[n].Date
            /\ return_scaler = [fits |-> 1, n_rows |-> n]
            /\ models = n_models
            /\ all_forecasts = paths
            /\ all_returns = [m \in 1..n_models |-> <<r>>]
            /\ median_forecast = <<>>
            /\ pattern_adjustment = <<>>
            /\ forecasts = <<aggregate(paths, 1)>>
            /\ metrics = <<>>
            /\ result = <<>>
            /\ model = "None"
            /\ trained = FALSE

TrendNext == to_json

TrendSpec == TrendInit /\ [][TrendNext]_vars

----------------------------------------------------------------------------
(* Sequence building on its own: prepare_data / prepare_training_data       *)
(* applied to the feature frame of a daily series of every length from 1   *)
(* to MaxSeriesDays                                                        *)

MaxSeriesDays == 60

SeriesEnds(last) ==
    IF last = 0 THEN <<[Date |-> 0, Price |-> 1200]>>
    ELSE <<[Date |-> 0, Price |-> 1200], [Date |-> last, Price |-> 2400]>>

PrepareInit ==
    \E v \in {"lstm", "simplified"}, last \in 0..(MaxSeriesDays - 1) :
        /\ variant = v
        /\ input = <<(RowsKey(v) :> SeriesEnds(last))>>
        /\ pc = "prepare"
        /\ stdout = <<>>
        /\ stderr = <<>>
        /\ exit_code = Running
        /\ df = SeriesEnds(last)
        /\ forecast_days = DefaultForecastDays
        /\ data = clean(SeriesEnds(last))
        /\ processed_data = with_returns(clean(SeriesEnds(last)))
        /\ X_train = <<>>
        /\ X_test = <<>>
        /\ y_prices_test = <<>>
        /\ last_sequence = <<>>
        /\ last_price = 0
        /\ last_date = 0
        /\ return_scaler = [fits |-> 0, n_rows |-> 0]
        /\ models = 0
        /\ all_forecasts = <<>>
        /\ all_returns = <<>>
        /\ median_forecast = <<>>
        /\ pattern_adjustment = <<>>
        /\ forecasts = <<>>
        /\ metrics = <<>>
        /\ result = <<>>
        /\ model = "None"
        /\ trained = FALSE

PrepareNext == prepare_data \/ prepare_training_data

PrepareSpec == PrepareInit /\ [][PrepareNext]_vars

----------------------------------------------------------------------------
(* Properties *)

\* C1: every run that ends in failure has printed, as its last line on
\* standard output or on standard error, a JSON document with an `error`
\* field before exiting with a non-zero status.
FailurePrintsErrorDocument ==
    (exit_code # Running /\ exit_code # 0) =>
        \/ (stdout # <<>> /\ stdout[Len(stdout)] = ErrorJson)
        \/ (stderr # <<>> /\ stderr[Len(stderr)] = ErrorJson)

\* C2: a run that exits with status 0 has written exactly one line to
\* standard output, and that line is the JSON result document.
SuccessPrintsOneDocument == exit_code = 0 => stdout = <<ResultJson>>

\* C3: the sequence-building stage never hands over to training when the
\* cleaned daily series has fewer than sequence_length + 2 = 32 rows.
ShortSeriesStopsAtPrepare ==
    (variant \in {"lstm", "simplified"} /\ pc = "train") =>
        Len(processed_data) >= sequence_length + 2

\* C4: once the forecast table is computed it has at most 90 rows, and when
\* the request names no horizon the horizon used is 60.
HorizonDefaultAndCap ==
    pc \in {"format", "output", "backtest"} =>
        /\ Len(forecasts) <= 90
        /\ (HorizonKey(variant) \notin DOMAIN input[1]) =>
               (forecast_days = 60 /\ Len(forecasts) = 60)

\* C5: an LSTM run whose ensemble was trained and whose requested horizon N
\* is in 0..90 exits with status 0, and its output has exactly N rows, the
\* k-th dated k days after the last input date (no row at all for N = 0).
HorizonRowsEmitted ==
    (/\ variant \in {"lstm", "simplified"}
     /\ pc = "exited"
     /\ models = n_models
     /\ Get(input[1], HorizonKey(variant), 60) \in 0..90) =>
        /\ exit_code = 0
        /\ LET N == Get(input[1], HorizonKey(variant), 60)
               dates == IF variant = "lstm" THEN result.forecast_dates
                        ELSE [k \in 1..Len(result.forecast) |-> result.forecast[k].ds]
           IN  /\ Len(dates) = N
               /\ \A k \in 1..N : dates[k] = data[Len(data)].Date + k

\* C6: every return a member used in the forecast loop lies in
\* [-0.05, +0.05], and every price of its path is the previous price (the
\* last observed price at the first step) times exp of that return.
ClampInvariant ==
    \A m \in 1..Len(all_returns) :
        \A t \in 1..Len(all_returns[m]) :
            /\ all_returns[m][t] >= -50
            /\ all_returns[m][t] <= 50
            /\ all_forecasts[m][t] =
                 NextPrice(IF t = 1 THEN last_price ELSE all_forecasts[m][t - 1],
                           all_returns[m][t])

\* C6 witness: a forecast was simulated in which one step's raw return was
\* above +0.05 and another's below -0.05, so both ends of the clip acted.
ClampActed ==
    /\ pc \in {"format", "output"}
    /\ \E m \in 1..Len(all_returns) : \E t \in 1..Len(all_returns[m]) :
          all_returns[m][t] = 50
    /\ \E m \in 1..Len(all_returns) : \E t \in 1..Len(all_returns[m]) :
          all_returns[m][t] = -50

\* C7: in the result of a successful LSTM run, every forecast day has
\* lower band <= median <= upper band (all three being numbers).
MedianWithinBands ==
    (variant \in {"lstm", "simplified"} /\ exit_code = 0) =>
        LET within(lo, x, hi) ==
                /\ lo # NaN /\ x # NaN /\ hi # NaN
                /\ lo <= x /\ x <= hi
        IN  IF variant = "lstm"
            THEN \A k \in 1..Len(result.median_prices) :
                    within(result.lower_band[k], result.median_prices[k],
                           result.upper_band[k])
            ELSE \A k \in 1..Len(result.forecast) :
                    within(result.forecast[k].yhat_lower, result.forecast[k].yhat,
                           result.forecast[k].yhat_upper)

\* C8: the loader's output has one row for each calendar day from the
\* earliest to the latest date of the input rows, in ascending order: its
\* length is max - min + 1 and its i-th row is dated min + i - 1.
LoaderOutputIsDaily ==
    (variant \in {"lstm", "simplified"} /\ data # <<>>) =>
        LET rows == input[1][RowsKey(variant)]
            lo == MinDate(rows)
            hi == MaxDate(rows)
        IN  /\ Len(data) = hi - lo + 1
            /\ \A i \in 1..Len(data) : data[i].Date = lo + i - 1

\* C8 witness: the loader has run on rows given in descending date order
\* with a gap of more than a month between them, and filled the gap.
LoaderFilledGap ==
    /\ variant \in {"lstm", "simplified"}
    /\ data # <<>>
    /\ LET rows == input[1][RowsKey(variant)]
       IN  /\ Len(rows) = 2
           /\ rows[1].Date > rows[2].Date + 30
           /\ Len(data) > 30

\* C9: for every date of the input, the cleaned series holds at that date
\* the price of the last input row carrying that date.
LastOccurrenceKept ==
    (variant \in {"lstm", "simplified"} /\ data # <<>>) =>
        LET rows == input[1][RowsKey(variant)]
        IN  \A i \in 1..Len(rows) :
                (\A j \in (i + 1)..Len(rows) : rows[j].Date # rows[i].Date) =>
                    \E k \in 1..Len(data) :
                        /\ data[k].Date = rows[i].Date
                        /\ data[k].Price = rows[i].Price

\* C10: the trend label of the result is "UP" exactly when the final median
\* forecast is more than 3% above the last observed price, "DOWN" exactly
\* when it is more than 3% below, and "FLAT" in every other case, the two
\* boundaries included.
TrendLabelByThreshold ==
    (variant = "lstm" /\ exit_code = 0) =>
        LET last == last_price
            final == forecasts[Len(forecasts)].Price_Median
        IN  /\ result.trendLabel \in {"UP", "DOWN", "FLAT"}
            /\ (result.trendLabel = "UP") <=> (100 * (final - last) > 3 * last)
            /\ (result.trendLabel = "DOWN") <=> (100 * (final - last) < -3 * last)

\* C10 witness: a result was produced whose final median forecast is exactly
\* 3% above the last observed price, and its label is "FLAT".
TrendAtBoundary ==
    /\ variant = "lstm" /\ exit_code = 0
    /\ 100 * (forecasts[Len(forecasts)].Price_Median - last_price) = 3 * last_price
    /\ result.trendLabel = "FLAT"

\* C11: in an LSTM run the feature scaler is never fitted more than once; from
\* the end of sequence building to the end of the run it has been fitted
\* exactly once, on all the rows of the feature frame.
ScalerFittedOnce ==
    variant \in {"lstm", "simplified"} =>
        /\ return_scaler.fits <= 1
        /\ return_scaler.fits = 1 => return_scaler.n_rows = Len(processed_data)
        /\ pc \in {"train", "forecast", "format", "output"} => return_scaler.fits = 1
        /\ exit_code = 0 => return_scaler.fits = 1

\* C11 witness: a run has gone through training and a forecast of the full 90
\* steps by every member and ended successfully, the scaler fitted once.
ScalerUsedThroughForecast ==
    /\ variant = "lstm" /\ exit_code = 0
    /\ forecast_days = 90
    /\ Len(all_forecasts) = n_models
    /\ return_scaler.fits = 1

TemporalSplit ==
    (variant \in {"lstm", "simplified"} /\ pc = "train") =>
        LET X == X_train \o X_test
            W == Len(X)
        IN  /\ \A j \in 1..W : X[j] = sequence_length + j - 1
            /\ Len(X_train) = (8 * W) \div 10
            /\ \A i \in 1..Len(X_train) : \A j \in 1..Len(X_test) :
                  X_train[i] < X_test[j]

\* C13 witness: sequence building has split a number of windows that is not
\* a multiple of 5 into several training and several test windows.
SplitOfManyWindows ==
    /\ variant \in {"lstm", "simplified"} /\ pc = "train"
    /\ Len(X_train) >= 2 /\ Len(X_test) >= 2
    /\ (Len(X_train) + Len(X_test)) % 5 # 0

\* C14: in the validation of the simplified variant the base-price and
\* actual-price arrays have one entry per test window, and for the test
\* window whose target is the return of row i the base price is the price of
\* row i - 1 and the actual price scored against is the price of row i.
ValidationAligned ==
    (variant = "simplified" /\ metrics # <<>>) =>
        /\ Len(metrics.base_rows) = Len(X_test)
        /\ Len(metrics.actual_rows) = Len(X_test)
        /\ \A j \in 1..Len(X_test) :
              LET i == X_test[j]
                  price(row) == processed_data[row + 1].Price
              IN  /\ price(metrics.base_rows[j]) = price(i - 1)
                  /\ price(metrics.actual_rows[j]) = price(i)

TrainedMeansFitted == (variant = "prophet" /\ trained) => model = "fitted"

\* C17: when the cleaned daily series has at least sequence_length + 2 = 32
\* rows, sequence building hands over at least one training window, at least
\* one test window and a forecast seed of exactly sequence_length rows.
EnoughRowsGiveTrainAndTest ==
    (/\ variant \in {"lstm", "simplified"}
     /\ pc = "train"
     /\ Len(processed_data) >= sequence_length + 2) =>
        /\ X_train # <<>>
        /\ X_test # <<>>
        /\ Len(last_sequence) = sequence_length

=============================================================================
